---- MODULE Spec2Model ----
(***************************************************************************)
(* A model of the flow-runtime type engine: the leaf descriptors (Void,    *)
(* This, SymbolLiteral), Nullable, the generic binder (FlowIntoType over a *)
(* TypeParameter slot) and the function-signature engine (FunctionType).   *)
(*                                                                         *)
(* Runtime values are strings naming one JavaScript value each; type       *)
(* descriptors are records carrying the class's typeName and fields.  The  *)
(* only mutable program state is TypeParameter.recorded, one per slot; a   *)
(* validation session is an argument of the call.  Every operation is an    *)
(* operator from (descriptor, input, recorded) to its result and the       *)
(* recorded map it leaves behind; every action applies one operation to    *)
(* inputs drawn from the fixture sets and stores the call in `last`.       *)
(***************************************************************************)
EXTENDS Integers, Sequences, FiniteSets, TLC

VARIABLES
  bound,     \* TypeParameter.bound of each slot (fixed at construction)
  recorded,  \* TypeParameter.recorded of each slot (NoType: unset)
  last       \* the last protocol call: operation, inputs, state before, result

vars == <<bound, recorded, last>>

(***************************************************************************)
(* Bounds of the model.                                                    *)
(***************************************************************************)
MaxArgs == 4      \* longest argument list handed to a signature
MaxFlows == 2     \* widest union a slot may reach before flows stop
MaxParams == 2    \* most parameters of a compared function type

(***************************************************************************)
(* Runtime values.                                                         *)
(***************************************************************************)
Undefined == "undefined"
Null == "null"

\* symA, symB: two symbols;  objA: an instance of class K;  objB: a plain
\* object;  K: a constructor (an unannotated function);  fnS, fnN, fn0:
\* functions carrying a signature annotation;  hi: a string;  n1: the number
\* 1;  true: the boolean.
Values ==
  {Undefined, Null, "symA", "symB", "objA", "objB", "K", "fnS", "fnN", "fn0",
   "hi", "n1", "true"}

TypeofFunction(v) == v \in {"K", "fnS", "fnN", "fn0"}
TypeofString(v) == v = "hi"
TypeofNumber(v) == v = "n1"
TypeofBoolean(v) == v = "true"
TypeofSymbol(v) == v \in {"symA", "symB"}
TypeofObject(v) == v \in {"objA", "objB"}

\* JavaScript truthiness: `if (x)`.
Truthy(v) == v \notin {Undefined, Null}

\* `input instanceof ctor`.
InstanceOf(input, ctor) == ctor = "K" /\ input = "objA"

(***************************************************************************)
(* Type descriptors.                                                       *)
(***************************************************************************)
NoType == [typeName |-> "undefined"]       \* a missing descriptor
VoidType == [typeName |-> "VoidType"]
NullLiteralType == [typeName |-> "NullLiteralType"]
AnyType == [typeName |-> "AnyType"]
EmptyType == [typeName |-> "EmptyType"]
StringType == [typeName |-> "StringType"]
NumberType == [typeName |-> "NumberType"]
BooleanType == [typeName |-> "BooleanType"]
ObjectType == [typeName |-> "ObjectType"]
ThisType(captured) == [typeName |-> "ThisType", recorded |-> captured]
SymbolLiteralType(value) == [typeName |-> "SymbolLiteralType", value |-> value]
NullableType(type) == [typeName |-> "NullableType", type |-> type]
UnionType(types) == [typeName |-> "UnionType", types |-> types]
FlowIntoType(slot) == [typeName |-> "FlowIntoType", typeParameter |-> slot]
FunctionTypeRestParam(type) == [typeName |-> "FunctionTypeRestParam", type |-> type]
FunctionTypeParam(type, optional) ==
  [typeName |-> "FunctionTypeParam", type |-> type, optional |-> optional]
FunctionType(params, rest, returnType) ==
  [typeName |-> "FunctionType", params |-> params, rest |-> rest,
   returnType |-> returnType]

Slots == {"T", "U"}

\* input[TypeSymbol]: the signature a function value is annotated with.
TypeSymbolOf(input) ==
  CASE input = "fnS" ->
         FunctionType(<<FunctionTypeParam(StringType, FALSE)>>, NoType, StringType)
    [] input = "fnN" ->
         FunctionType(<<FunctionTypeParam(NumberType, FALSE)>>, NoType, NumberType)
    [] input = "fn0" -> FunctionType(<<>>, NoType, StringType)
    [] OTHER -> NoType

(***************************************************************************)
(* TypeContext: typeOf and union.                                          *)
(***************************************************************************)
typeOf(input) ==
  CASE input = Undefined -> VoidType
    [] input = Null -> NullLiteralType
    [] TypeofString(input) -> StringType
    [] TypeofNumber(input) -> NumberType
    [] TypeofBoolean(input) -> BooleanType
    [] TypeofSymbol(input) -> SymbolLiteralType(input)
    [] TypeofObject(input) -> ObjectType
    [] OTHER -> FunctionType(<<>>, NoType, AnyType)

Members(type) == IF type.typeName = "UnionType" THEN type.types ELSE {type}

union(a, b) ==
  LET types == Members(a) \cup Members(b)
  IN  IF Cardinality(types) = 1 THEN CHOOSE t \in types : TRUE
      ELSE UnionType(types)

(***************************************************************************)
(* Validation: the session is the ordered list of its error records.       *)
(***************************************************************************)
addError(validation, path, type, message) ==
  Append(validation, [path |-> path, expected |-> type, message |-> message])

(***************************************************************************)
(* VoidType                                                                *)
(***************************************************************************)
VoidTypeCollectErrors(t, validation, path, input) ==
  IF input = Undefined
    THEN [err |-> FALSE, errs |-> validation]
    ELSE [err |-> TRUE,
          errs |-> addError(validation, path, t, "ERR_EXPECT_VOID")]

VoidTypeAccepts(t, input) == input = Undefined

VoidTypeCompareWith(t, input) ==
  IF input.typeName = "VoidType" THEN 0 ELSE -1

(***************************************************************************)
(* ThisType                                                                *)
(***************************************************************************)
\* a variant of collectErrors that checks identity alone and not instanceof
ThisTypeCollectErrorsIdentityOnly(t, validation, path, input) ==
  IF input = t.recorded THEN [err |-> FALSE, errs |-> validation]
  ELSE IF t.recorded \notin {Undefined, Null}
    THEN [err |-> TRUE,
          errs |-> addError(validation, path, t, "ERR_EXPECT_THIS")]
  ELSE [err |-> FALSE, errs |-> validation]

ThisTypeCollectErrors(t, validation, path, input) ==
  IF input = t.recorded THEN [err |-> FALSE, errs |-> validation]
  ELSE IF TypeofFunction(t.recorded) /\ InstanceOf(input, t.recorded)
    THEN [err |-> FALSE, errs |-> validation]
  ELSE IF t.recorded \notin {Undefined, Null}
    THEN [err |-> TRUE,
          errs |-> addError(validation, path, t, "ERR_EXPECT_THIS")]
  ELSE [err |-> FALSE, errs |-> validation]

ThisTypeAccepts(t, input) ==
  IF input = t.recorded THEN TRUE
  ELSE IF TypeofFunction(t.recorded) /\ InstanceOf(input, t.recorded) THEN TRUE
  ELSE IF t.recorded \notin {Undefined, Null} THEN FALSE
  ELSE TRUE

ThisTypeCompareWith(t, input) ==
  IF input.typeName # "ThisType" THEN -1
  ELSE IF Truthy(input.recorded) /\ Truthy(t.recorded)
    THEN (IF input.recorded = t.recorded THEN 0 ELSE -1)
  ELSE IF Truthy(t.recorded) THEN 0
  ELSE 1

(***************************************************************************)
(* SymbolLiteralType                                                       *)
(***************************************************************************)
SymbolLiteralTypeCollectErrors(t, validation, path, input) ==
  IF input = t.value
    THEN [err |-> FALSE, errs |-> validation]
    ELSE [err |-> TRUE,
          errs |-> addError(validation, path, t, "ERR_EXPECT_EXACT_VALUE")]

SymbolLiteralTypeAccepts(t, input) == input = t.value

SymbolLiteralTypeCompareWith(t, input) ==
  IF input.typeName = "SymbolLiteralType" /\ input.value = t.value
    THEN 0 ELSE -1

(***************************************************************************)
(* The leaf descriptors the context hands out: null, string, number,       *)
(* object.  Each accepts by the value's kind and compares equal only to    *)
(* its own class.                                                          *)
(***************************************************************************)
PrimitiveAccepts(t, input) ==
  CASE t.typeName = "NullLiteralType" -> input = Null
    [] t.typeName = "StringType" -> TypeofString(input)
    [] t.typeName = "NumberType" -> TypeofNumber(input)
    [] t.typeName = "BooleanType" -> TypeofBoolean(input)
    [] t.typeName = "ObjectType" -> TypeofObject(input)
    [] t.typeName = "AnyType" -> TRUE
    [] OTHER -> FALSE

PrimitiveCollectErrors(t, validation, path, input) ==
  IF PrimitiveAccepts(t, input)
    THEN [err |-> FALSE, errs |-> validation]
    ELSE [err |-> TRUE,
          errs |-> addError(validation, path, t, "ERR_EXPECT_TYPE")]

PrimitiveCompareWith(t, input) ==
  CASE t.typeName = "AnyType" -> 1
    [] t.typeName \in {"NullLiteralType", "StringType", "NumberType",
                        "BooleanType", "ObjectType"} ->
         IF input.typeName = t.typeName THEN 0 ELSE -1
    [] OTHER -> -1

(***************************************************************************)
(* The protocol's dynamic dispatch.  Each operation takes the recorded map *)
(* and returns its result with the recorded map it leaves behind.          *)
(*   Accepts        -> [ok, rec]                                           *)
(*   CollectErrors  -> [err, rec, errs]                                    *)
(*   CompareTypes   -> [res, rec]                                          *)
(***************************************************************************)
RECURSIVE Accepts(_, _, _)
RECURSIVE CollectErrors(_, _, _, _, _)
RECURSIVE CompareTypes(_, _, _)

\* Type.acceptsType: false only when the comparison is -1.
AcceptsType(t, input, rec) ==
  LET Result(c) == [ok |-> c.res # -1, rec |-> c.rec]
  IN  Result(CompareTypes(t, input, rec))

(***************************************************************************)
(* NullableType                                                            *)
(***************************************************************************)
NullableTypeCollectErrors(t, validation, path, input, rec) ==
  IF input \in {Undefined, Null}
    THEN [err |-> FALSE, rec |-> rec, errs |-> validation]
    ELSE CollectErrors(t.type, validation, path, input, rec)

NullableTypeAccepts(t, input, rec) ==
  IF input \in {Undefined, Null}
    THEN [ok |-> TRUE, rec |-> rec]
    ELSE Accepts(t.type, input, rec)

NullableTypeCompareWith(t, input, rec) ==
  LET NeverZero(result) ==
        IF result.res = -1 THEN result ELSE [res |-> 1, rec |-> result.rec]
      Compared(result) ==
        IF input.typeName = "NullableType" THEN result ELSE NeverZero(result)
  IN  IF input.typeName \in {"NullLiteralType", "VoidType"}
        THEN [res |-> 1, rec |-> rec]
        ELSE Compared(CompareTypes(
               t.type,
               IF input.typeName = "NullableType" THEN input.type ELSE input,
               rec))

(***************************************************************************)
(* UnionType, as the context builds it for a widened slot.                 *)
(***************************************************************************)
UnionTypeAccepts(t, input, rec) ==
  [ok |-> \E m \in t.types : Accepts(m, input, rec).ok, rec |-> rec]

UnionTypeCollectErrors(t, validation, path, input, rec) ==
  IF \E m \in t.types : Accepts(m, input, rec).ok
    THEN [err |-> FALSE, rec |-> rec, errs |-> validation]
    ELSE [err |-> TRUE, rec |-> rec,
          errs |-> addError(validation, path, t, "ERR_NO_UNION")]

UnionTypeCompareWith(t, input, rec) ==
  IF input.typeName = "UnionType" /\ input.types = t.types
    THEN [res |-> 0, rec |-> rec]
  ELSE IF \A i \in Members(input) :
            \E m \in t.types : CompareTypes(m, i, rec).res # -1
    THEN [res |-> 1, rec |-> rec]
  ELSE [res |-> -1, rec |-> rec]

(***************************************************************************)
(* FlowIntoType: the proxy through which values flow into a slot.          *)
(* In each operation `b` is the check of the input against the bound (or   *)
(* the operation on the chained proxy) and `r` the check against the type  *)
(* already recorded.                                                       *)
(***************************************************************************)
\* a variant of collectErrors that, once a type is recorded, checks the
\* input against the recorded type alone and no longer against the bound
FlowIntoTypeCollectErrorsRecordedOnly(t, validation, path, input, rec) ==
  LET typeParameter == t.typeParameter
      recorded_ == rec[typeParameter]
      bound_ == bound[typeParameter]
      Widen(r) ==
        IF r.ok
          THEN [err |-> FALSE, rec |-> r.rec, errs |-> validation]
          ELSE [err |-> FALSE,
                rec |-> [r.rec EXCEPT ![typeParameter] =
                           union(recorded_, typeOf(input))],
                errs |-> validation]
      Checked(b) ==
        IF bound_.typeName = "FlowIntoType" THEN b
        ELSE IF recorded_ # NoType
          THEN Widen(Accepts(recorded_, input, rec))
        ELSE IF bound_ # NoType
                  /\ bound_.typeName \in {"AnyType", "ExistentialType"}
          THEN [err |-> FALSE, rec |-> rec, errs |-> validation]
        ELSE IF bound_ # NoType /\ b.err THEN b
        ELSE [err |-> FALSE,
              rec |-> [b.rec EXCEPT ![typeParameter] = typeOf(input)],
              errs |-> b.errs]
  IN  Checked(IF bound_ # NoType
                THEN CollectErrors(bound_, validation, path, input, rec)
                ELSE [err |-> FALSE, rec |-> rec, errs |-> validation])

FlowIntoTypeCollectErrors(t, validation, path, input, rec) ==
  LET typeParameter == t.typeParameter
      recorded_ == rec[typeParameter]
      bound_ == bound[typeParameter]
      Widen(b, r) ==
        IF r.ok
          THEN [err |-> FALSE, rec |-> r.rec, errs |-> b.errs]
          ELSE [err |-> FALSE,
                rec |-> [r.rec EXCEPT ![typeParameter] =
                           union(recorded_, typeOf(input))],
                errs |-> b.errs]
      Checked(b) ==
        IF bound_.typeName = "FlowIntoType" THEN b
        ELSE IF recorded_ # NoType
          THEN IF bound_ # NoType /\ b.err THEN b
               ELSE Widen(b, Accepts(recorded_, input, b.rec))
        ELSE IF bound_ # NoType
                  /\ bound_.typeName \in {"AnyType", "ExistentialType"}
          THEN [err |-> FALSE, rec |-> rec, errs |-> validation]
        ELSE IF bound_ # NoType /\ b.err THEN b
        ELSE [err |-> FALSE,
              rec |-> [b.rec EXCEPT ![typeParameter] = typeOf(input)],
              errs |-> b.errs]
  IN  Checked(IF bound_ # NoType
                THEN CollectErrors(bound_, validation, path, input, rec)
                ELSE [err |-> FALSE, rec |-> rec, errs |-> validation])

\* a variant of accepts that replaces the recorded type by the type of the
\* new value instead of widening it
FlowIntoTypeAcceptsReplacing(t, input, rec) ==
  LET typeParameter == t.typeParameter
      recorded_ == rec[typeParameter]
      bound_ == bound[typeParameter]
      Widen(r) ==
        IF r.ok
          THEN [ok |-> TRUE, rec |-> r.rec]
          ELSE [ok |-> TRUE,
                rec |-> [r.rec EXCEPT ![typeParameter] = typeOf(input)]]
      Checked(b) ==
        IF bound_.typeName = "FlowIntoType" THEN b
        ELSE IF recorded_ # NoType
          THEN IF bound_ # NoType /\ ~b.ok THEN b
               ELSE Widen(Accepts(recorded_, input, b.rec))
        ELSE IF bound_ # NoType
                  /\ bound_.typeName \in {"AnyType", "ExistentialType"}
          THEN [ok |-> TRUE, rec |-> rec]
        ELSE IF bound_ # NoType /\ ~b.ok THEN b
        ELSE [ok |-> TRUE,
              rec |-> [b.rec EXCEPT ![typeParameter] = typeOf(input)]]
  IN  Checked(IF bound_ # NoType THEN Accepts(bound_, input, rec)
              ELSE [ok |-> TRUE, rec |-> rec])

\* a variant of accepts that rejects a value the recorded type rejects
FlowIntoTypeAcceptsRejecting(t, input, rec) ==
  LET typeParameter == t.typeParameter
      recorded_ == rec[typeParameter]
      bound_ == bound[typeParameter]
      Checked(b) ==
        IF bound_.typeName = "FlowIntoType" THEN b
        ELSE IF recorded_ # NoType
          THEN IF bound_ # NoType /\ ~b.ok THEN b
               ELSE Accepts(recorded_, input, b.rec)
        ELSE IF bound_ # NoType
                  /\ bound_.typeName \in {"AnyType", "ExistentialType"}
          THEN [ok |-> TRUE, rec |-> rec]
        ELSE IF bound_ # NoType /\ ~b.ok THEN b
        ELSE [ok |-> TRUE,
              rec |-> [b.rec EXCEPT ![typeParameter] = typeOf(input)]]
  IN  Checked(IF bound_ # NoType THEN Accepts(bound_, input, rec)
              ELSE [ok |-> TRUE, rec |-> rec])

FlowIntoTypeAccepts(t, input, rec) ==
  LET typeParameter == t.typeParameter
      recorded_ == rec[typeParameter]
      bound_ == bound[typeParameter]
      Widen(r) ==
        IF r.ok
          THEN [ok |-> TRUE, rec |-> r.rec]
          ELSE [ok |-> TRUE,
                rec |-> [r.rec EXCEPT ![typeParameter] =
                           union(recorded_, typeOf(input))]]
      Checked(b) ==
        IF bound_.typeName = "FlowIntoType" THEN b
        ELSE IF recorded_ # NoType
          THEN IF bound_ # NoType /\ ~b.ok THEN b
               ELSE Widen(Accepts(recorded_, input, b.rec))
        ELSE IF bound_ # NoType
                  /\ bound_.typeName \in {"AnyType", "ExistentialType"}
          THEN [ok |-> TRUE, rec |-> rec]
        ELSE IF bound_ # NoType /\ ~b.ok THEN b
        ELSE [ok |-> TRUE,
              rec |-> [b.rec EXCEPT ![typeParameter] = typeOf(input)]]
  IN  Checked(IF bound_ # NoType THEN Accepts(bound_, input, rec)
              ELSE [ok |-> TRUE, rec |-> rec])

FlowIntoTypeCompareWith(t, input, rec) ==
  LET typeParameter == t.typeParameter
      recorded_ == rec[typeParameter]
      bound_ == bound[typeParameter]
      Widen(result) ==
        IF result.res = 0
          THEN [res |-> 0, rec |-> result.rec]
          ELSE [res |-> 1,
                rec |-> [result.rec EXCEPT ![typeParameter] =
                           union(recorded_, input)]]
      Checked(b) ==
        IF bound_.typeName = "FlowIntoType" THEN b
        ELSE IF recorded_ # NoType
          THEN IF bound_ # NoType /\ b.res = -1
                 THEN [res |-> -1, rec |-> b.rec]
                 ELSE Widen(CompareTypes(recorded_, input, b.rec))
        ELSE IF bound_ # NoType
                  /\ bound_.typeName \in {"AnyType", "ExistentialType"}
          THEN [res |-> 1, rec |-> rec]
        ELSE IF bound_ # NoType /\ b.res = -1
          THEN [res |-> -1, rec |-> b.rec]
        ELSE [res |-> 0, rec |-> [b.rec EXCEPT ![typeParameter] = input]]
  IN  Checked(IF bound_ # NoType THEN CompareTypes(bound_, input, rec)
              ELSE [res |-> 0, rec |-> rec])

(***************************************************************************)
(* FunctionTypeParam and FunctionTypeRestParam: a parameter delegates to   *)
(* its type; an optional parameter also accepts the missing value; the     *)
(* rest parameter checks one excess argument against its element type.     *)
(***************************************************************************)
FunctionTypeParamAccepts(t, input, rec) ==
  IF t.typeName = "FunctionTypeParam" /\ t.optional /\ input = Undefined
    THEN [ok |-> TRUE, rec |-> rec]
    ELSE Accepts(t.type, input, rec)

FunctionTypeParamCollectErrors(t, validation, path, input, rec) ==
  IF t.typeName = "FunctionTypeParam" /\ t.optional /\ input = Undefined
    THEN [err |-> FALSE, rec |-> rec, errs |-> validation]
    ELSE CollectErrors(t.type, validation, path, input, rec)

FunctionTypeParamCompareWith(t, input, rec) ==
  CompareTypes(t.type,
               IF input.typeName \in {"FunctionTypeParam", "FunctionTypeRestParam"}
                 THEN input.type ELSE input,
               rec)

(***************************************************************************)
(* FunctionType                                                            *)
(***************************************************************************)
annotationParamAt(annotation, i) ==
  IF i <= Len(annotation.params) THEN annotation.params[i] ELSE NoType

\* the annotated branch of collectErrors: the loop over params from i on,
\* then the return type
RECURSIVE CollectErrorsAnnotation(_, _, _, _, _, _, _)
CollectErrorsAnnotation(t, annotation, i, validation, path, rec, hasErrors) ==
  LET Return(r) ==
        IF ~r.ok
          THEN [err |-> TRUE, rec |-> r.rec,
                errs |-> addError(validation, path, t, "ERR_EXPECT_RETURN")]
          ELSE [err |-> hasErrors, rec |-> r.rec, errs |-> validation]
      \* a: the parameter's acceptsType; missing: no such annotation
      \* parameter and the parameter is not optional
      Step(missing, a) ==
        CollectErrorsAnnotation(
          t, annotation, i + 1,
          IF missing \/ ~a.ok
            THEN addError(validation, path, t, "ERR_EXPECT_ARGUMENT")
            ELSE validation,
          path,
          IF missing THEN rec ELSE a.rec,
          hasErrors \/ missing \/ ~a.ok)
  IN  IF i > Len(t.params)
        THEN Return(AcceptsType(t.returnType, annotation.returnType, rec))
        ELSE Step(annotationParamAt(annotation, i) = NoType
                    /\ ~t.params[i].optional,
                  AcceptsType(t.params[i], annotationParamAt(annotation, i),
                              rec))

\* the annotated branch of accepts
RECURSIVE AcceptsAnnotation(_, _, _, _)
AcceptsAnnotation(t, annotation, i, rec) ==
  LET Step(a) ==
        IF ~a.ok THEN a ELSE AcceptsAnnotation(t, annotation, i + 1, a.rec)
  IN  IF i > Len(t.params)
        THEN AcceptsType(t.returnType, annotation.returnType, rec)
      ELSE IF annotationParamAt(annotation, i) = NoType
                /\ ~t.params[i].optional
        THEN [ok |-> FALSE, rec |-> rec]
      ELSE Step(AcceptsType(t.params[i], annotationParamAt(annotation, i),
                            rec))

\* the unannotated branch: `any` is propagated into every parameter and the
\* return type
RECURSIVE PropagateAny(_, _, _)
PropagateAny(t, i, rec) ==
  IF i > Len(t.params)
    THEN AcceptsType(t.returnType, AnyType, rec).rec
    ELSE PropagateAny(t, i + 1, AcceptsType(t.params[i], AnyType, rec).rec)

FunctionTypeCollectErrors(t, validation, path, input, rec) ==
  IF ~TypeofFunction(input)
    THEN [err |-> TRUE, rec |-> rec,
          errs |-> addError(validation, path, t, "ERR_EXPECT_FUNCTION")]
  ELSE IF TypeSymbolOf(input) # NoType
    THEN CollectErrorsAnnotation(t, TypeSymbolOf(input), 1, validation, path,
                                 rec, FALSE)
  ELSE [err |-> FALSE, rec |-> PropagateAny(t, 1, rec), errs |-> validation]

FunctionTypeAccepts(t, input, rec) ==
  IF ~TypeofFunction(input) THEN [ok |-> FALSE, rec |-> rec]
  ELSE IF TypeSymbolOf(input) # NoType
    THEN AcceptsAnnotation(t, TypeSymbolOf(input), 1, rec)
  ELSE [ok |-> TRUE, rec |-> PropagateAny(t, 1, rec)]

\* the loop of compareWith over the positional parameters from i on
RECURSIVE CompareParams(_, _, _, _, _)
CompareParams(params, inputParams, i, isGreater, rec) ==
  LET Step(result) ==
        IF result.res = -1 THEN [res |-> -1, rec |-> result.rec]
        ELSE CompareParams(params, inputParams, i + 1,
                           isGreater \/ result.res = 1, result.rec)
  IN  IF i > Len(params)
        THEN [res |-> IF isGreater THEN 1 ELSE 0, rec |-> rec]
        ELSE Step(CompareTypes(params[i], inputParams[i], rec))

\* a variant of compareWith that forgets a greater return type once the
\* parameters are compared
FunctionTypeCompareWithParamsOnly(t, input, rec) ==
  LET Params(returnTypeResult) ==
        IF returnTypeResult.res = -1 THEN returnTypeResult
        ELSE IF Len(input.params) < Len(t.params)
          THEN [res |-> -1, rec |-> returnTypeResult.rec]
        ELSE CompareParams(t.params, input.params, 1,
                           FALSE, returnTypeResult.rec)
  IN  IF input.typeName # "FunctionType" THEN [res |-> -1, rec |-> rec]
      ELSE Params(CompareTypes(t.returnType, input.returnType, rec))

FunctionTypeCompareWith(t, input, rec) ==
  LET Params(returnTypeResult) ==
        IF returnTypeResult.res = -1 THEN returnTypeResult
        ELSE IF Len(input.params) < Len(t.params)
          THEN [res |-> -1, rec |-> returnTypeResult.rec]
        ELSE CompareParams(t.params, input.params, 1,
                           returnTypeResult.res = 1, returnTypeResult.rec)
  IN  IF input.typeName # "FunctionType" THEN [res |-> -1, rec |-> rec]
      ELSE Params(CompareTypes(t.returnType, input.returnType, rec))

\* acceptsParams: the positional loop from i on, then the excess arguments
RECURSIVE AcceptsRest(_, _, _, _)
AcceptsRest(t, args, i, rec) ==
  LET Step(a) == IF ~a.ok THEN a ELSE AcceptsRest(t, args, i + 1, a.rec)
  IN  IF i > Len(args) THEN [ok |-> TRUE, rec |-> rec]
      ELSE Step(Accepts(t.rest, args[i], rec))

RECURSIVE AcceptsPositional(_, _, _, _)
AcceptsPositional(t, args, i, rec) ==
  LET Step(a) == IF ~a.ok THEN a ELSE AcceptsPositional(t, args, i + 1, a.rec)
  IN  IF i > Len(t.params)
        THEN IF Len(args) > Len(t.params) /\ t.rest # NoType
               THEN AcceptsRest(t, args, Len(t.params) + 1, rec)
               ELSE [ok |-> TRUE, rec |-> rec]
        ELSE Step(Accepts(t.params[i],
                          IF i <= Len(args) THEN args[i] ELSE Undefined, rec))

AcceptsParams(t, args, rec) == AcceptsPositional(t, args, 1, rec)

\* Type.assert: collectErrors into a fresh session at the empty path; throws
\* when an error was recorded.
TypeAssert(t, input, rec) ==
  LET Result(c) == [threw |-> c.err, rec |-> c.rec, errs |-> c.errs]
  IN  Result(CollectErrors(t, <<>>, <<>>, input, rec))

\* assertParams: as acceptsParams, every check an assert; the first throw
\* ends the call.
RECURSIVE AssertRest(_, _, _, _)
AssertRest(t, args, i, rec) ==
  LET Step(a) == IF a.threw THEN a ELSE AssertRest(t, args, i + 1, a.rec)
  IN  IF i > Len(args) THEN [threw |-> FALSE, rec |-> rec, errs |-> <<>>]
      ELSE Step(TypeAssert(t.rest, args[i], rec))

RECURSIVE AssertPositional(_, _, _, _)
AssertPositional(t, args, i, rec) ==
  LET Step(a) == IF a.threw THEN a ELSE AssertPositional(t, args, i + 1, a.rec)
  IN  IF i > Len(t.params)
        THEN IF Len(args) > Len(t.params) /\ t.rest # NoType
               THEN AssertRest(t, args, Len(t.params) + 1, rec)
               ELSE [threw |-> FALSE, rec |-> rec, errs |-> <<>>]
        ELSE Step(TypeAssert(t.params[i],
                             IF i <= Len(args) THEN args[i] ELSE Undefined,
                             rec))

AssertParams(t, args, rec) == AssertPositional(t, args, 1, rec)

\* invoke: acceptsParams over argument types; the result is the return type
\* or the context's empty type.
RECURSIVE InvokeRest(_, _, _, _)
InvokeRest(t, args, i, rec) ==
  LET Step(a) == IF ~a.ok THEN [ret |-> EmptyType, rec |-> a.rec]
                 ELSE InvokeRest(t, args, i + 1, a.rec)
  IN  IF i > Len(args) THEN [ret |-> t.returnType, rec |-> rec]
      ELSE Step(AcceptsType(t.rest, args[i], rec))

RECURSIVE InvokePositional(_, _, _, _)
InvokePositional(t, args, i, rec) ==
  LET Step(a) == IF ~a.ok THEN [ret |-> EmptyType, rec |-> a.rec]
                 ELSE InvokePositional(t, args, i + 1, a.rec)
  IN  IF i > Len(t.params)
        THEN IF Len(args) > Len(t.params) /\ t.rest # NoType
               THEN InvokeRest(t, args, Len(t.params) + 1, rec)
               ELSE [ret |-> t.returnType, rec |-> rec]
      ELSE IF i <= Len(args)
        THEN Step(AcceptsType(t.params[i], args[i], rec))
      ELSE Step(Accepts(t.params[i], Undefined, rec))

Invoke(t, args, rec) == InvokePositional(t, args, 1, rec)

(***************************************************************************)
(* The dispatchers.                                                        *)
(***************************************************************************)
Accepts(t, input, rec) ==
  CASE t.typeName = "VoidType" -> [ok |-> VoidTypeAccepts(t, input), rec |-> rec]
    [] t.typeName = "ThisType" -> [ok |-> ThisTypeAccepts(t, input), rec |-> rec]
    [] t.typeName = "SymbolLiteralType" ->
         [ok |-> SymbolLiteralTypeAccepts(t, input), rec |-> rec]
    [] t.typeName = "NullableType" -> NullableTypeAccepts(t, input, rec)
    [] t.typeName = "UnionType" -> UnionTypeAccepts(t, input, rec)
    [] t.typeName = "FlowIntoType" -> FlowIntoTypeAccepts(t, input, rec)
    [] t.typeName = "FunctionType" -> FunctionTypeAccepts(t, input, rec)
    [] t.typeName \in {"FunctionTypeParam", "FunctionTypeRestParam"} ->
         FunctionTypeParamAccepts(t, input, rec)
    [] OTHER -> [ok |-> PrimitiveAccepts(t, input), rec |-> rec]

WithRec(leaf, rec) == [err |-> leaf.err, rec |-> rec, errs |-> leaf.errs]

CollectErrors(t, validation, path, input, rec) ==
  CASE t.typeName = "VoidType" ->
         WithRec(VoidTypeCollectErrors(t, validation, path, input), rec)
    [] t.typeName = "ThisType" ->
         WithRec(ThisTypeCollectErrors(t, validation, path, input), rec)
    [] t.typeName = "SymbolLiteralType" ->
         WithRec(SymbolLiteralTypeCollectErrors(t, validation, path, input), rec)
    [] t.typeName = "NullableType" ->
         NullableTypeCollectErrors(t, validation, path, input, rec)
    [] t.typeName = "UnionType" ->
         UnionTypeCollectErrors(t, validation, path, input, rec)
    [] t.typeName = "FlowIntoType" ->
         FlowIntoTypeCollectErrors(t, validation, path, input, rec)
    [] t.typeName = "FunctionType" ->
         FunctionTypeCollectErrors(t, validation, path, input, rec)
    [] t.typeName \in {"FunctionTypeParam", "FunctionTypeRestParam"} ->
         FunctionTypeParamCollectErrors(t, validation, path, input, rec)
    [] OTHER -> WithRec(PrimitiveCollectErrors(t, validation, path, input), rec)

\* compareTypes(a, b): a's compareWith, applied to b.
CompareTypes(t, input, rec) ==
  CASE t.typeName = "VoidType" ->
         [res |-> VoidTypeCompareWith(t, input), rec |-> rec]
    [] t.typeName = "ThisType" ->
         [res |-> ThisTypeCompareWith(t, input), rec |-> rec]
    [] t.typeName = "SymbolLiteralType" ->
         [res |-> SymbolLiteralTypeCompareWith(t, input), rec |-> rec]
    [] t.typeName = "NullableType" -> NullableTypeCompareWith(t, input, rec)
    [] t.typeName = "UnionType" -> UnionTypeCompareWith(t, input, rec)
    [] t.typeName = "FlowIntoType" -> FlowIntoTypeCompareWith(t, input, rec)
    [] t.typeName = "FunctionType" -> FunctionTypeCompareWith(t, input, rec)
    [] t.typeName \in {"FunctionTypeParam", "FunctionTypeRestParam"} ->
         FunctionTypeParamCompareWith(t, input, rec)
    [] OTHER -> [res |-> PrimitiveCompareWith(t, input), rec |-> rec]

(***************************************************************************)
(* The pattern dispatcher generated for                                    *)
(*   t.pattern((input: string) => input,                                   *)
(*             (foo: string, bar: number, ...input: boolean[]) => input,   *)
(*             (foo: string, ...extra: number[]) => foo,                   *)
(*             (foo: string, bar: string, baz: string, qux: string) => foo,*)
(*             _ => _)                                                     *)
(* It returns the number of the branch whose body runs.                    *)
(***************************************************************************)
At(args, i) == IF i <= Len(args) THEN args[i] ELSE Undefined

pattern(args) ==
  LET _arg0 == At(args, 1)
      _arg1 == SubSeq(args, 2, Len(args))
  IN  IF TypeofString(_arg0) THEN 1
      ELSE IF /\ TypeofString(_arg0)
              /\ TypeofNumber(At(_arg1, 1))
              /\ \A i \in 2..Len(_arg1) : TypeofBoolean(_arg1[i])
        THEN 2
      ELSE IF /\ TypeofString(_arg0)
              /\ \A i \in 1..Len(_arg1) : TypeofNumber(_arg1[i])
        THEN 3
      ELSE IF /\ TypeofString(_arg0)
              /\ TypeofString(At(_arg1, 1))
              /\ TypeofString(At(_arg1, 2))
              /\ TypeofString(At(_arg1, 3))
        THEN 4
      ELSE 5

(***************************************************************************)
(* Fixtures: the descriptors and inputs the operations are applied to.     *)
(***************************************************************************)
Param(type) == FunctionTypeParam(type, FALSE)
Optional(type) == FunctionTypeParam(type, TRUE)

\* (string) -> string
SigString == FunctionType(<<Param(StringType)>>, NoType, StringType)
\* (string, ...number) -> boolean
SigRest ==
  FunctionType(<<Param(StringType)>>, FunctionTypeRestParam(NumberType),
               BooleanType)
\* (string, string, string, string) -> string
SigFour ==
  FunctionType(<<Param(StringType), Param(StringType), Param(StringType),
                 Param(StringType)>>, NoType, StringType)
\* (string, number?) -> string
SigOptional ==
  FunctionType(<<Param(StringType), Optional(NumberType)>>, NoType, StringType)
\* _ => _ : one unbound slot as parameter and return type
SigIdentity ==
  FunctionType(<<Param(FlowIntoType("T"))>>, NoType, FlowIntoType("T"))
\* (this, ...?string) -> void
SigThis ==
  FunctionType(<<Param(ThisType(Undefined))>>,
               FunctionTypeRestParam(NullableType(StringType)), VoidType)

Signatures == {SigString, SigRest, SigFour, SigOptional, SigIdentity, SigThis}

ArgValues == {"hi", "n1"}
ArgTypes == {StringType, NumberType, NullableType(StringType)}
PatternValues == {"hi", "n1", "true"}

SeqsUpTo(S, n) == UNION {[1..k -> S] : k \in 0..n}

\* the descriptors accepts and collectErrors are applied to
ProtocolTypes ==
  {VoidType, ThisType(Undefined), ThisType("objA"), ThisType("K"),
   SymbolLiteralType("symA"), NullableType(SymbolLiteralType("symA")),
   NullableType(StringType), FlowIntoType("T"), FlowIntoType("U"),
   NullableType(FlowIntoType("T")), SigString, SigOptional, SigIdentity}

\* the descriptors compared with a FlowIntoType
FlowInputs ==
  {StringType, NumberType, VoidType, ObjectType, NullableType(StringType),
   ThisType(Undefined)}

\* the descriptors without generic slots that compareWith is applied to
LeafTypes ==
  {VoidType, NullLiteralType, ThisType(Undefined), ThisType("objA"),
   ThisType("K"), ThisType("symA"), SymbolLiteralType("symA"),
   SymbolLiteralType("symB")}

NullableTypes == {NullableType(t) : t \in LeafTypes}

FunctionTypes ==
  {FunctionType(params, NoType, ret) :
     params \in SeqsUpTo({Param(StringType), Param(NullableType(StringType))},
                         MaxParams),
     ret \in {StringType, NullableType(StringType)}}

StaticTypes == LeafTypes \cup NullableTypes \cup FunctionTypes

Paths == {<<"arg">>, <<"arg", "x">>}
Sessions ==
  {<<>>, <<[path |-> <<"prior">>, expected |-> VoidType,
            message |-> "ERR_EXPECT_VOID"]>>}

\* the bound of slot T; slot U is chained to T
Bounds == {NoType, AnyType, NullableType(ThisType("K"))}

(***************************************************************************)
(* The state machine.                                                      *)
(***************************************************************************)
Fresh == [s \in Slots |-> NoType]

NoCall ==
  [op |-> "none", type |-> NoType, other |-> NoType, input |-> Undefined,
   args |-> <<>>, argTypes |-> <<>>, pre |-> Fresh, session |-> <<>>,
   path |-> <<>>, errs |-> <<>>, ok |-> FALSE, res |-> 0, ret |-> NoType]

Init ==
  /\ bound \in {[s \in Slots |-> IF s = "T" THEN b ELSE FlowIntoType("T")] :
                  b \in Bounds}
  /\ recorded = Fresh
  /\ last = NoCall

\* no call is in progress: the caller has taken the last call's result
Idle == last.op = "none"

\* the caller takes the result of the call; the slots keep what was recorded
return ==
  /\ ~Idle
  /\ last' = NoCall
  /\ UNCHANGED <<bound, recorded>>

\* the model stops a flow that would widen a slot past MaxFlows members
Fits(rec) == \A s \in Slots : Cardinality(Members(rec[s])) <= MaxFlows

accepts ==
  /\ Idle
  /\ \E t \in ProtocolTypes, input \in Values :
    LET Apply(a) ==
          /\ Fits(a.rec)
          /\ recorded' = a.rec
          /\ last' = [NoCall EXCEPT !.op = "accepts", !.type = t,
                        !.input = input, !.pre = recorded, !.ok = a.ok]
          /\ UNCHANGED bound
    IN  Apply(Accepts(t, input, recorded))

collectErrors ==
  /\ Idle
  /\ \E t \in ProtocolTypes, input \in Values, path \in Paths,
     validation \in Sessions :
    LET Apply(c) ==
          /\ Fits(c.rec)
          /\ recorded' = c.rec
          /\ last' = [NoCall EXCEPT !.op = "collectErrors", !.type = t,
                        !.input = input, !.pre = recorded, !.path = path,
                        !.session = validation, !.errs = c.errs, !.ok = c.err]
          /\ UNCHANGED bound
    IN  Apply(CollectErrors(t, validation, path, input, recorded))

flowCompareWith ==
  /\ Idle
  /\ \E t \in {FlowIntoType("T"), FlowIntoType("U")}, input \in FlowInputs :
    LET Apply(c) ==
          /\ Fits(c.rec)
          /\ recorded' = c.rec
          /\ last' = [NoCall EXCEPT !.op = "compareWith", !.type = t,
                        !.other = input, !.pre = recorded, !.res = c.res]
          /\ UNCHANGED bound
    IN  Apply(CompareTypes(t, input, recorded))

acceptsParams ==
  /\ Idle
  /\ \E t \in Signatures, args \in SeqsUpTo(ArgValues, MaxArgs) :
    LET Apply(a) ==
          /\ Fits(a.rec)
          /\ recorded' = a.rec
          /\ last' = [NoCall EXCEPT !.op = "acceptsParams", !.type = t,
                        !.args = args, !.pre = recorded, !.ok = a.ok]
          /\ UNCHANGED bound
    IN  Apply(AcceptsParams(t, args, recorded))

assertParams ==
  /\ Idle
  /\ \E t \in Signatures, args \in SeqsUpTo(ArgValues, MaxArgs) :
    LET Apply(a) ==
          /\ Fits(a.rec)
          /\ recorded' = a.rec
          /\ last' = [NoCall EXCEPT !.op = "assertParams", !.type = t,
                        !.args = args, !.pre = recorded, !.errs = a.errs,
                        !.ok = a.threw]
          /\ UNCHANGED bound
    IN  Apply(AssertParams(t, args, recorded))

invoke ==
  /\ Idle
  /\ \E t \in Signatures, args \in SeqsUpTo(ArgTypes, MaxArgs) :
    LET Apply(r) ==
          /\ Fits(r.rec)
          /\ recorded' = r.rec
          /\ last' = [NoCall EXCEPT !.op = "invoke", !.type = t,
                        !.argTypes = args, !.pre = recorded, !.ret = r.ret]
          /\ UNCHANGED bound
    IN  Apply(Invoke(t, args, recorded))

Next ==
  \/ accepts
  \/ collectErrors
  \/ flowCompareWith
  \/ acceptsParams
  \/ assertParams
  \/ invoke
  \/ return

Spec == Init /\ [][Next]_vars

\* the attempts on signatures alone, one after the other
NextAttempts == accepts \/ acceptsParams \/ assertParams \/ invoke \/ return

SpecAttempts == Init /\ [][NextAttempts]_vars

(***************************************************************************)
(* The operations on descriptors without generic slots: the comparator     *)
(* and the pattern dispatcher.                                             *)
(***************************************************************************)
compareWith ==
  /\ Idle
  /\ \E t \in StaticTypes, input \in StaticTypes :
    /\ last' = [NoCall EXCEPT !.op = "compareWith", !.type = t,
                  !.other = input, !.pre = recorded,
                  !.res = CompareTypes(t, input, recorded).res]
    /\ UNCHANGED <<bound, recorded>>

dispatch ==
  /\ Idle
  /\ \E args \in SeqsUpTo(PatternValues, MaxArgs) :
    /\ last' = [NoCall EXCEPT !.op = "pattern", !.args = args,
                  !.pre = recorded, !.res = pattern(args)]
    /\ UNCHANGED <<bound, recorded>>

NextStatic == compareWith \/ dispatch \/ return

SpecStatic == Init /\ [][NextStatic]_vars

(***************************************************************************)
(* Properties.                                                             *)
(***************************************************************************)
\* the slot a flow through proxy t lands in (the chained slot's target)
Target(t) ==
  IF bound[t.typeParameter].typeName = "FlowIntoType"
    THEN bound[t.typeParameter].typeParameter
    ELSE t.typeParameter

\* value v satisfies the bound of slot s, if it has one
SatisfiesBound(s, v) ==
  bound[s] = NoType \/ Accepts(bound[s], v, Fresh).ok

\* the last call was a flow of last.input through a proxy, by accepts or
\* collectErrors
IsFlow ==
  /\ last.op \in {"accepts", "collectErrors"}
  /\ last.type.typeName = "FlowIntoType"

\* the last flow succeeded
FlowSucceeded ==
  \/ last.op = "accepts" /\ last.ok
  \/ last.op = "collectErrors" /\ ~last.ok

(* C1: a signature with no rest parameter rejects (acceptsParams false,     *)
(* assertParams throws) every argument list longer than its parameter      *)
(* list; with a rest parameter and the positional parameters satisfied,    *)
(* acceptsParams is true exactly when the rest parameter accepts every     *)
(* excess argument.                                                        *)
C1_ExcessRejectedOrRestChecked ==
  last.op \in {"acceptsParams", "assertParams"} =>
    LET t == last.type
        args == last.args
        n == Len(t.params)
        positional ==
          \A i \in 1..n : Accepts(t.params[i], At(args, i), last.pre).ok
    IN  /\ (t.rest = NoType /\ Len(args) > n) =>
             IF last.op = "acceptsParams" THEN ~last.ok ELSE last.ok
        /\ (last.op = "acceptsParams" /\ t.rest # NoType /\ positional) =>
             (last.ok <=>
                \A i \in (n + 1)..Len(args) :
                  Accepts(t.rest, args[i], last.pre).ok)

\* acceptsParams was called without a rest parameter and with excess arguments
C1_ExcessCall ==
  /\ last.op = "acceptsParams"
  /\ last.type.rest = NoType
  /\ Len(last.args) > Len(last.type.params)

\* a value the recorded type X does not accept flowed in through a proxy
\* and satisfies the bound
C2_Widened ==
  /\ IsFlow
  /\ last.pre[Target(last.type)] # NoType
  /\ ~Accepts(last.pre[Target(last.type)], last.input, last.pre).ok
  /\ SatisfiesBound(Target(last.type), last.input)

\* the flow succeeded and recorded became union(X, typeOf(value))
C2_Widen ==
  C2_Widened =>
    /\ FlowSucceeded
    /\ recorded[Target(last.type)] =
         union(last.pre[Target(last.type)], typeOf(last.input))

\* value w, re-checked through the proxy of the last flow, passes in both
\* channels and leaves recorded as it is
Repasses(w) ==
  /\ Accepts(last.type, w, recorded) = [ok |-> TRUE, rec |-> recorded]
  /\ \A path \in Paths :
       CollectErrors(last.type, <<>>, path, w, recorded)
         = [err |-> FALSE, rec |-> recorded, errs |-> <<>>]

\* every value X accepted that satisfies the bound still passes
C2_Recheck ==
  C2_Widened =>
    \A w \in Values :
      (/\ Accepts(last.pre[Target(last.type)], w, last.pre).ok
       /\ SatisfiesBound(Target(last.type), w)) => Repasses(w)

\* recorded, once set, is only replaced by a union that includes it
C2_Monotone ==
  \A s \in Slots :
    recorded[s] # NoType =>
      /\ recorded'[s] # NoType
      /\ Members(recorded[s]) \subseteq Members(recorded'[s])

(* C2 as stated: when a value that the recorded type X does not accept     *)
(* flows in and satisfies the bound, the flow succeeds and recorded        *)
(* becomes union(X, typeOf(value)); afterwards EVERY value X accepted      *)
(* still passes through the slot and leaves recorded unchanged.            *)
C2_RecheckEveryValue ==
  /\ C2_Widen
  /\ C2_Widened =>
       \A w \in Values :
         Accepts(last.pre[Target(last.type)], w, last.pre).ok => Repasses(w)

(* C2 as amended: when a value that the recorded type X does not accept    *)
(* flows in and satisfies the bound, the flow succeeds and recorded        *)
(* becomes union(X, typeOf(value)); afterwards every value X accepted THAT *)
(* SATISFIES THE BOUND still passes and leaves recorded unchanged; and     *)
(* recorded, once set, is only ever replaced by a union that includes its  *)
(* previous value.                                                         *)
C2_WideningMonotone ==
  [](C2_Widen /\ C2_Recheck) /\ [][C2_Monotone]_vars

\* a flow widened a recorded type, and some value the old type accepted
\* satisfies the bound
C2_WidenedState ==
  /\ C2_Widened
  /\ FlowSucceeded
  /\ recorded[Target(last.type)] # last.pre[Target(last.type)]
  /\ \E w \in Values :
       /\ Accepts(last.pre[Target(last.type)], w, last.pre).ok
       /\ SatisfiesBound(Target(last.type), w)

\* the signature _ => _ was called with "hi" on its unbound, unset slot
C3_CalledWithHi ==
  /\ last.op \in {"acceptsParams", "assertParams"}
  /\ last.type = SigIdentity
  /\ last.args = <<"hi">>
  /\ bound["T"] = NoType
  /\ last.pre["T"] = NoType

\* the call succeeded and recorded string
C3_RecordsString ==
  C3_CalledWithHi =>
    /\ (IF last.op = "acceptsParams" THEN last.ok ELSE ~last.ok)
    /\ recorded["T"] = StringType

\* a later flow through the unbound slot, which has recorded string
C3_LaterFlow ==
  /\ IsFlow
  /\ last.type = FlowIntoType("T")
  /\ bound["T"] = NoType
  /\ last.pre["T"] # NoType
  /\ StringType \in Members(last.pre["T"])

(* C3 as stated: for the signature _ => _ over one unbound slot, after a   *)
(* call with "hi" the slot's recorded type is string, and from then on a   *)
(* value flowing through the slot is accepted only if it is a string.      *)
C3_OnlyStringsAfterHi ==
  /\ C3_RecordsString
  /\ C3_LaterFlow => (FlowSucceeded <=> TypeofString(last.input))

(* C3 as amended: after the call with "hi" the slot's recorded type is     *)
(* string, and from then on every value flowing through the slot is        *)
(* accepted: a value the recorded type accepts leaves it unchanged, any    *)
(* other value (a number, say) widens it to union(recorded, typeOf(value)).*)
C3_WidensAfterHi ==
  /\ C3_RecordsString
  /\ C3_LaterFlow =>
       /\ FlowSucceeded
       /\ recorded["T"] =
            IF Accepts(last.pre["T"], last.input, last.pre).ok
              THEN last.pre["T"]
              ELSE union(last.pre["T"], typeOf(last.input))

\* a number flowed through the slot that had recorded string
C3_NumberAfterHi ==
  /\ C3_LaterFlow
  /\ last.pre["T"] = StringType
  /\ last.input = "n1"

(* C4: with the candidates of the pattern, a call with four string         *)
(* arguments selects the four-parameter candidate (branch 4), never the    *)
(* one-parameter candidate (branch 1).                                     *)
C4_FourStringsSelectFour ==
  (/\ last.op = "pattern"
   /\ Len(last.args) = 4
   /\ \A i \in 1..4 : TypeofString(last.args[i])) => last.res = 4

(* C5: binder state never leaks between attempts: an attempt (accepts,    *)
(* acceptsParams, assertParams or invoke) on a signature gives the result, *)
(* and leaves its slot the recorded type, that it would on freshly         *)
(* constructed slots.                                                      *)
C5_AttemptAsIfFresh ==
  /\ (last.op = "accepts" /\ last.type = SigIdentity) =>
       /\ last.ok = Accepts(last.type, last.input, Fresh).ok
       /\ recorded["T"] = Accepts(last.type, last.input, Fresh).rec["T"]
  /\ (last.op = "acceptsParams" /\ last.type = SigIdentity) =>
       /\ last.ok = AcceptsParams(last.type, last.args, Fresh).ok
       /\ recorded["T"] = AcceptsParams(last.type, last.args, Fresh).rec["T"]
  /\ (last.op = "assertParams" /\ last.type = SigIdentity) =>
       /\ last.ok = AssertParams(last.type, last.args, Fresh).threw
       /\ recorded["T"] = AssertParams(last.type, last.args, Fresh).rec["T"]
  /\ (last.op = "invoke" /\ last.type = SigIdentity) =>
       /\ last.ret = Invoke(last.type, last.argTypes, Fresh).ret
       /\ recorded["T"] = Invoke(last.type, last.argTypes, Fresh).rec["T"]

\* the descriptors of the comparator's witness property
C6_Types == (LeafTypes \cup NullableTypes)

\* some value is accepted by a and rejected by b
Separates(a, b) ==
  \E v \in Values : Accepts(a, v, Fresh).ok /\ ~Accepts(b, v, Fresh).ok

(* C6: for descriptors A, B among Void, NullLiteral, ThisType, SymbolLiteral*)
(* and Nullable(T): if A.compareWith(B) is 1 some value is accepted by A   *)
(* and rejected by B; if it is -1 some value is accepted by B and rejected *)
(* by A.                                                                   *)
C6_ComparatorWitness ==
  (/\ last.op = "compareWith"
   /\ last.type \in C6_Types
   /\ last.other \in C6_Types) =>
    /\ last.res = 1 => Separates(last.type, last.other)
    /\ last.res = -1 => Separates(last.other, last.type)

(* C7: reflexivity: compareWith of a leaf descriptor (Void, SymbolLiteral, *)
(* ThisType with any captured value or none) against an identical copy of  *)
(* itself returns 0.                                                       *)
C7_Reflexive ==
  (/\ last.op = "compareWith"
   /\ last.type \in LeafTypes \ {NullLiteralType}
   /\ last.other = last.type) => last.res = 0

\* the comparison of the return types, and of the parameters at position i
C8_Return == CompareTypes(last.type.returnType, last.other.returnType, last.pre).res
C8_Param(i) == CompareTypes(last.type.params[i], last.other.params[i], last.pre).res

\* a function type was compared with a descriptor without generic slots
C8_Compared ==
  /\ last.op = "compareWith"
  /\ last.type \in FunctionTypes
  /\ last.other \in StaticTypes

(* C8: FunctionType.compareWith(other) is -1 when other is not a function  *)
(* type, when the return types compare as -1, when other declares fewer    *)
(* parameters than this, or when a positional parameter compares as -1;    *)
(* otherwise 1 if the return types or a parameter compare as 1; and        *)
(* otherwise 0.                                                            *)
C8_FunctionCompare ==
  C8_Compared =>
    last.res =
      IF last.other.typeName # "FunctionType" THEN -1
      ELSE IF C8_Return = -1 THEN -1
      ELSE IF Len(last.other.params) < Len(last.type.params) THEN -1
      ELSE IF \E i \in 1..Len(last.type.params) : C8_Param(i) = -1 THEN -1
      ELSE IF C8_Return = 1 THEN 1
      ELSE IF \E i \in 1..Len(last.type.params) : C8_Param(i) = 1 THEN 1
      ELSE 0

\* two function types compared as 1 on their return types alone
C8_ReturnDecides ==
  /\ C8_Compared
  /\ last.other.typeName = "FunctionType"
  /\ Len(last.other.params) >= Len(last.type.params)
  /\ Len(last.type.params) > 0
  /\ C8_Return = 1
  /\ \A i \in 1..Len(last.type.params) : C8_Param(i) = 0
  /\ last.res = 1

\* the lists of values of the argument types: one value each type accepts
RECURSIVE ValueLists(_)
ValueLists(argTypes) ==
  IF argTypes = <<>> THEN {<<>>}
  ELSE {<<v>> \o vs :
          v \in {w \in Values : Accepts(Head(argTypes), w, Fresh).ok},
          vs \in ValueLists(Tail(argTypes))}

(* C9: invoke mirrors acceptsParams: invoke returns the declared return    *)
(* type when acceptsParams accepts the lists of values of the argument     *)
(* types, and the empty marker when it accepts none of them.               *)
C9_InvokeMirrorsAcceptsParams ==
  last.op = "invoke" =>
    LET lists == ValueLists(last.argTypes)
        accepted(vs) == AcceptsParams(last.type, vs, last.pre).ok
    IN  /\ (lists # {} /\ \A vs \in lists : accepted(vs)) =>
             last.ret = last.type.returnType
        /\ (lists # {} /\ \A vs \in lists : ~accepted(vs)) =>
             last.ret = EmptyType

\* collectErrors was applied to one of the variants
C10_Collected ==
  /\ last.op = "collectErrors"
  /\ last.type.typeName \in
       {"VoidType", "ThisType", "SymbolLiteralType", "NullableType",
        "FunctionType", "FlowIntoType"}

(* C10: the silent and the diagnostic channel agree: from the same state   *)
(* collectErrors returns true exactly when accepts returns false, and it   *)
(* appends records to the session, all at the given path, exactly when it  *)
(* returns true; the records already in the session stay.                  *)
C10_ChannelsAgree ==
  C10_Collected =>
    /\ last.ok = ~Accepts(last.type, last.input, last.pre).ok
    /\ last.ok <=> Len(last.errs) > Len(last.session)
    /\ Len(last.errs) >= Len(last.session)
    /\ SubSeq(last.errs, 1, Len(last.session)) = last.session
    /\ \A i \in (Len(last.session) + 1)..Len(last.errs) :
         last.errs[i].path = last.path

\* collectErrors failed on a value and appended a record
C10_Failed ==
  /\ C10_Collected
  /\ last.ok
  /\ Len(last.errs) > Len(last.session)

\* the slot the last call flowed into has a bound that is neither any, nor
\* existential, nor a chained proxy
C11_Bounded ==
  /\ last.type.typeName = "FlowIntoType"
  /\ bound[Target(last.type)] # NoType
  /\ bound[Target(last.type)].typeName
       \notin {"AnyType", "ExistentialType", "FlowIntoType"}

\* a value that the bound rejects flowed in by accepts or collectErrors
C11_ValueViolates ==
  /\ C11_Bounded
  /\ IsFlow
  /\ ~Accepts(bound[Target(last.type)], last.input, last.pre).ok

\* a type that the bound compares as -1 with flowed in by compareWith
C11_TypeViolates ==
  /\ C11_Bounded
  /\ last.op = "compareWith"
  /\ CompareTypes(bound[Target(last.type)], last.other, last.pre).res = -1

(* C11: for a slot with a bound that is neither any nor existential nor a  *)
(* chained proxy, a flow of an input that violates the bound fails in      *)
(* every mode, whether or not recorded is set: accepts returns false,      *)
(* collectErrors returns true and appends the bound's own validation       *)
(* error at the given path, compareWith returns -1; and the slot's         *)
(* recorded is left exactly as it was before the operation.                *)
C11_BoundViolationFails ==
  /\ C11_ValueViolates =>
       /\ ~FlowSucceeded
       /\ recorded[Target(last.type)] = last.pre[Target(last.type)]
       /\ last.op = "collectErrors" =>
            /\ last.errs =
                 CollectErrors(bound[Target(last.type)], last.session,
                               last.path, last.input, last.pre).errs
            /\ Len(last.errs) > Len(last.session)
            /\ SubSeq(last.errs, 1, Len(last.session)) = last.session
            /\ \A i \in (Len(last.session) + 1)..Len(last.errs) :
                 last.errs[i].path = last.path
  /\ C11_TypeViolates =>
       /\ last.res = -1
       /\ recorded[Target(last.type)] = last.pre[Target(last.type)]

\* collectErrors failed on the bound of a slot that had recorded a type
C11_ViolatedWhenRecorded ==
  /\ C11_ValueViolates
  /\ last.op = "collectErrors"
  /\ last.pre[Target(last.type)] # NoType
  /\ last.ok

====
